---- MODULE Spec2Model ----
(***************************************************************************)
(* Model of the Git Paste Patch extension (src/src/extension.ts).          *)
(*                                                                         *)
(* The extension host is single threaded: a handler runs without           *)
(* interruption from one `await` to the next, and other handlers run at    *)
(* the awaits.  Every action below is one such run-to-the-next-await       *)
(* segment of PatchViewProvider.applyPatch (or a whole short handler).     *)
(*                                                                         *)
(* Strings are sequences of one-character strings.  A URI is the sequence  *)
(* of the segments of its path.  The external diff library is modelled by  *)
(* what the extension observes of it: parsePatch yields a list of file     *)
(* entries, throws, or yields no entry; applyPatch yields the patched text *)
(* or false.  An entry's hunks cover the whole file: they apply to exactly *)
(* one text (hunks.old) and produce hunks.new.                             *)
(***************************************************************************)
EXTENDS Integers, Sequences, FiniteSets, TLC

\* ------------------------------------------------------------------ bounds
\* Largest number of file entries in a pasted patch.
MaxFiles == 2

\* ------------------------------------------------------------- characters
CR == "CR"
LF == "LF"

\* "/dev/null", the name git gives the missing side of a creation/deletion.
DevNull == <<"/", "d", "e", "v", "/", "n", "u", "l", "l">>

\* ------------------------------------------------- string helpers (JS)
\* String.prototype.startsWith
StartsWith(s, pre) ==
    /\ Len(s) >= Len(pre)
    /\ SubSeq(s, 1, Len(pre)) = pre

\* String.prototype.substring(n)
Substring(s, n) == SubSeq(s, n + 1, Len(s))

\* relPath.replace(/\\/g, "/")
ReplaceBackslashes(s) == [k \in 1..Len(s) |-> IF s[k] = "\\" THEN "/" ELSE s[k]]

\* originalText.replace(/\r\n/g, "\n"): one left-to-right pass, matches do
\* not overlap and the output is not rescanned.
RECURSIVE Normalize(_)
Normalize(t) ==
    IF Len(t) = 0 THEN <<>>
    ELSE IF Len(t) >= 2 /\ t[1] = CR /\ t[2] = LF
         THEN <<LF>> \o Normalize(SubSeq(t, 3, Len(t)))
         ELSE <<t[1]>> \o Normalize(Tail(t))

\* --------------------------------------------------------- paths and URIs
\* Split a path string on "/" into its segments (empty segments included).
RECURSIVE SplitAcc(_, _, _)
SplitAcc(s, cur, acc) ==
    IF Len(s) = 0 THEN Append(acc, cur)
    ELSE IF s[1] = "/" THEN SplitAcc(Tail(s), <<>>, Append(acc, cur))
    ELSE SplitAcc(Tail(s), Append(cur, s[1]), acc)

Split(s) == SplitAcc(s, <<>>, <<>>)

\* posix.normalize of an absolute path, folded over the segments appended to
\* `base`: empty and "." segments vanish, ".." removes the last segment (and
\* is dropped at the root).
RECURSIVE Resolve(_, _)
Resolve(base, segs) ==
    IF Len(segs) = 0 THEN base
    ELSE LET s == segs[1] IN
         IF s = <<>> \/ s = <<".">> THEN Resolve(base, Tail(segs))
         ELSE IF s = <<".", ".">>
              THEN Resolve(IF Len(base) = 0 THEN base
                           ELSE SubSeq(base, 1, Len(base) - 1), Tail(segs))
              ELSE Resolve(Append(base, s), Tail(segs))

\* vscode.Uri.joinPath(folder.uri, relPath) = posix.join(uri.path, relPath)
JoinPath(uri, rel) == Resolve(uri, Split(rel))

\* let relPath = filePatch.newFileName || filePatch.oldFileName
RawPath(fp) == IF fp.newFileName # <<>> THEN fp.newFileName ELSE fp.oldFileName

\* if (!relPath || relPath === "/dev/null") continue;
Skipped(fp) == RawPath(fp) = <<>> \/ RawPath(fp) = DevNull

\* if (relPath.startsWith("a/")) ...; if (relPath.startsWith("b/")) ...
StripA(s) == IF StartsWith(s, <<"a", "/">>) THEN Substring(s, 2) ELSE s
StripB(s) == IF StartsWith(s, <<"b", "/">>) THEN Substring(s, 2) ELSE s

\* The relPath the loop body works with (lines 196-200).
RelPath(fp) == ReplaceBackslashes(StripB(StripA(RawPath(fp))))

\* const targetUri = vscode.Uri.joinPath(folder.uri, relPath)
TargetUri(folder, fp) == JoinPath(folder, RelPath(fp))

\* ------------------------------------------------------------ the inputs
TextX == <<"x", LF>>
TextY == <<"y", LF>>
TextXCrLf == <<"x", CR, LF>>
TextCrCrLf == <<CR, CR, LF>>

Hunks(old, new) == [old |-> old, new |-> new]

EModify  == [oldFileName |-> <<"a", "/", "x">>, newFileName |-> <<"b", "/", "x">>,
             hunks |-> Hunks(TextX, TextY)]
ECreate  == [oldFileName |-> DevNull, newFileName |-> <<"b", "/", "z">>,
             hunks |-> Hunks(<<>>, TextY)]
EDelete  == [oldFileName |-> <<"a", "/", "x">>, newFileName |-> DevNull,
             hunks |-> Hunks(TextX, <<>>)]

\* The file entries of the patches of Spec: a change of the file x, the
\* creation of the file z and the deletion of the file x.
Entries == {EModify, ECreate, EDelete}

\* Workspace-relative paths a patch can name (SpecNames): plain, below a
\* directory called a or b, with a backslash, with a leading "/", and with
\* ".." segments.
RelNames ==
    { <<"x">>,
      <<"a", "/", "x">>,
      <<"b", "/", "x">>,
      <<"b", "\\", "x">>,
      <<"/", "x">>,
      <<".", ".", "/", "x">>,
      <<"b", "/", ".", ".", "/", ".", ".", "/", "x">> }

\* The entry git writes for path q ("--- a/q", "+++ b/q"), and the entry of
\* a patch that names q on its "---" line only.
NamedEntries ==
    { [oldFileName |-> <<"a", "/">> \o q,
       newFileName |-> IF both THEN <<"b", "/">> \o q ELSE <<>>,
       hunks |-> h] :
        q \in RelNames, both \in BOOLEAN,
        h \in {Hunks(<<>>, TextY), Hunks(TextX, TextY)} }

RECURSIVE SeqsUpTo(_, _)
SeqsUpTo(S, n) ==
    IF n = 0 THEN {<<>>}
    ELSE LET R == SeqsUpTo(S, n - 1) IN
         R \cup {Append(q, e) : q \in {r \in R : Len(r) = n - 1}, e \in S}

\* What the clipboard or the text area can hold: blank text, text parsePatch
\* throws on, or a diff with its parsed file entries (possibly none).
Blank == [kind |-> "blank", files |-> <<>>]
Unreadable == [kind |-> "bad", files |-> <<>>]
Diff(fs) == [kind |-> "diff", files |-> fs]
Inputs == {Blank, Unreadable} \cup {Diff(q) : q \in SeqsUpTo(Entries, MaxFiles)}

\* One-entry patches over the names of RelNames.
NameInputs == {Diff(<<e>>) : e \in NamedEntries}

\* Workspace folders (URIs); the first one is the root the extension uses.
Folder1 == <<<<"w">>>>
Folder2 == <<<<"v">>>>
FolderLists == {<<>>, <<Folder1, Folder2>>}

\* The files the inputs can name.
Paths == {TargetUri(Folder1, e) : e \in {f \in Entries \cup NamedEntries : ~Skipped(f)}}

NoFile == [exists |-> FALSE, text |-> <<>>, saved |-> <<>>]
File(t) == [exists |-> TRUE, text |-> t, saved |-> t]

\* -------------------------------------------------- the diff library
\* Diff.applyPatch(normalizedOriginal, filePatch): the patched text, or false.
LibApplyPatch(text, fp) ==
    IF text = fp.hunks.old THEN [ok |-> TRUE, text |-> fp.hunks.new]
    ELSE [ok |-> FALSE, text |-> <<>>]

HunksFailedIgnored(patched) == FALSE

\* if (patchedText === false)
HunksFailed(patched) == ~patched.ok

\* ----------------------------------------------------------------- state
\* The two places an invocation of applyPatch is started from: the view's
\* "apply" message handler and the gitPastePatch.apply command.
Procs == {"view", "command"}

VARIABLES
    workspaceFolders,  \* vscode.workspace.workspaceFolders
    fs,                \* the host's files: document text and saved (disk) text
    clipboard,         \* vscode.env.clipboard
    view,              \* this.view is set (resolveWebviewView has run)
    patchArea,         \* value of the view's text area
    pc,                \* where each invocation of applyPatch stands
    files,             \* files: the parsed patch
    idx,               \* position of the for loop in files
    ok,                \* ok
    ko,                \* ko
    messages,          \* messages
    cur,               \* document, originalText, existed, patchedText
    panel,             \* what showResultPanel was given
    hist,              \* per invocation: what it has done so far (history)
    lastEdit           \* the last edit the host applied (history)

vars == <<workspaceFolders, fs, clipboard, view, patchArea, pc, files, idx,
          ok, ko, messages, cur, panel, hist, lastEdit>>

NoCur == [document |-> FALSE, originalText |-> <<>>, existed |-> FALSE,
          patchedText |-> <<>>]
NoPanel == [shown |-> FALSE, ok |-> 0, ko |-> 0, messages |-> <<>>]
NoHist == [attempted |-> <<>>, early |-> FALSE, emptied |-> FALSE,
           clearSent |-> FALSE, edits |-> 0, saves |-> 0, existed |-> <<>>]
NoEdit == [by |-> "none", entry |-> EModify, read |-> NoCur,
           base |-> NoFile, result |-> NoFile]

\* The files of the workspace (and one outside it) before anything runs.
InitialTexts == {TextXCrLf, TextCrCrLf}

InitWith(clips) ==
    /\ workspaceFolders \in FolderLists
    /\ \E start \in {NoFile} \cup {File(t) : t \in InitialTexts} :
         fs = [u \in Paths |->
                 IF u = <<<<"w">>, <<"x">>>> THEN start
                 ELSE IF u = <<<<"x">>>> THEN File(TextX)
                 ELSE NoFile]
    /\ clipboard \in clips
    /\ view = FALSE
    /\ patchArea = Blank
    /\ pc = [p \in Procs |-> "idle"]
    /\ files = [p \in Procs |-> <<>>]
    /\ idx = [p \in Procs |-> 0]
    /\ ok = [p \in Procs |-> 0]
    /\ ko = [p \in Procs |-> 0]
    /\ messages = [p \in Procs |-> <<>>]
    /\ cur = [p \in Procs |-> NoCur]
    /\ panel = [p \in Procs |-> NoPanel]
    /\ hist = [p \in Procs |-> NoHist]
    /\ lastEdit = NoEdit

\* The clipboard holds a patch over the entries of Entries.
Init == InitWith(Inputs)

\* The clipboard holds a one-entry patch over the names of RelNames.
InitNames == InitWith(NameInputs)

\* ------------------------------------------------------- result entries
Message(kind, relPath, what) == [kind |-> kind, path |-> relPath, what |-> what]

\* messages.push({ kind: "fail", text: `${relPath}: ...` })
PushFail(msgs, relPath, what) == Append(msgs, Message("fail", relPath, what))

\* kind: existed ? "ok" : "new"
SavedKind(existed) == IF existed THEN "ok" ELSE "new"

\* messages.push({ kind: existed ? "ok" : "new", text: ... })
PushSaved(msgs, relPath, existed) ==
    Append(msgs, Message(SavedKind(existed), relPath,
                         IF existed THEN "patched and saved."
                         ELSE "created and patched."))

\* ------------------------------------------------------------- the loop
\* The for loop's next entry at or after `from` that is not skipped by the
\* `continue` of line 197; Len(fl) + 1 when the loop is over.
RECURSIVE NextEntry(_, _)
NextEntry(fl, from) ==
    IF from > Len(fl) THEN Len(fl) + 1
    ELSE IF Skipped(fl[from]) THEN NextEntry(fl, from + 1)
    ELSE from

\* Where the loop goes on after the entry at i: after the `continue` of
\* line 224, the end of the try block, and the catch block.
AfterCatchAbort(fl, i) == Len(fl) + 1

AfterFailedHunks(fl, i) == NextEntry(fl, i + 1)
AfterEdit(fl, i) == NextEntry(fl, i + 1)
AfterCatch(fl, i) == NextEntry(fl, i + 1)

\* Run the loop from entry j up to the next await: either the
\* openTextDocument of entry j, or (loop over) showResultPanel followed by
\* the call of clipboard.writeText("").
Enter(p, fl, j, ok2, ko2, msgs2, h) ==
    /\ files' = [files EXCEPT ![p] = fl]
    /\ idx' = [idx EXCEPT ![p] = j]
    /\ ok' = [ok EXCEPT ![p] = ok2]
    /\ ko' = [ko EXCEPT ![p] = ko2]
    /\ messages' = [messages EXCEPT ![p] = msgs2]
    /\ cur' = [cur EXCEPT ![p] = NoCur]
    /\ IF j <= Len(fl)
       THEN /\ pc' = [pc EXCEPT ![p] = "open"]
            /\ panel' = [panel EXCEPT ![p] = NoPanel]
            /\ hist' = [hist EXCEPT ![p] =
                          [h EXCEPT !.attempted = Append(h.attempted, j)]]
       ELSE /\ pc' = [pc EXCEPT ![p] = "clip"]
            /\ panel' = [panel EXCEPT ![p] =
                           [shown |-> TRUE, ok |-> ok2, ko |-> ko2,
                            messages |-> msgs2]]
            /\ hist' = [hist EXCEPT ![p] = h]

\* if (!patchContent?.trim())
IsBlank(patchContent) == patchContent.kind = "blank"

StopsEarlyUnlessEmpty(patchContent) ==
    \/ IsBlank(patchContent)
    \/ workspaceFolders = <<>>
    \/ patchContent.kind = "bad"

\* The four early returns of applyPatch (lines 167-189).
StopsEarly(patchContent) ==
    \/ IsBlank(patchContent)
    \/ workspaceFolders = <<>>
    \/ patchContent.kind = "bad"
    \/ patchContent.files = <<>>

\* applyPatch(patchContent), from its call to its first await or return.
ApplyPatchStart(p, patchContent) ==
    /\ pc[p] \in {"idle", "done"}
    /\ IF StopsEarly(patchContent)
       THEN /\ pc' = [pc EXCEPT ![p] = "done"]
            /\ hist' = [hist EXCEPT ![p] = [NoHist EXCEPT !.early = TRUE]]
            /\ panel' = [panel EXCEPT ![p] = NoPanel]
            /\ files' = [files EXCEPT ![p] = <<>>]
            /\ idx' = [idx EXCEPT ![p] = 0]
            /\ ok' = [ok EXCEPT ![p] = 0]
            /\ ko' = [ko EXCEPT ![p] = 0]
            /\ messages' = [messages EXCEPT ![p] = <<>>]
            /\ cur' = [cur EXCEPT ![p] = NoCur]
       ELSE Enter(p, patchContent.files, NextEntry(patchContent.files, 1),
                  0, 0, <<>>, NoHist)
    /\ UNCHANGED <<workspaceFolders, fs, clipboard, view, patchArea, lastEdit>>

\* The entry the loop body is working on, and its target.
Entry(p) == files[p][idx[p]]
Target(p) == TargetUri(workspaceFolders[1], Entry(p))

\* Lines 209-225: openTextDocument has settled; read the text, normalize
\* it, apply the hunks; on failure report and go on, else call applyEdit.
OpenDocument(p) ==
    /\ pc[p] = "open"
    /\ LET f == fs[Target(p)]
           originalText == IF f.exists THEN f.text ELSE <<>>
           normalizedOriginal == Normalize(originalText)
           patchedText == LibApplyPatch(normalizedOriginal, Entry(p))
       IN IF HunksFailed(patchedText)
          THEN Enter(p, files[p], AfterFailedHunks(files[p], idx[p]),
                     ok[p], ko[p] + 1,
                     PushFail(messages[p], RelPath(Entry(p)), "patch failed."),
                     [hist[p] EXCEPT !.existed = Append(@, f.exists)])
          ELSE /\ pc' = [pc EXCEPT ![p] = "edit"]
               /\ cur' = [cur EXCEPT ![p] =
                            [document |-> f.exists,
                             originalText |-> originalText,
                             existed |-> f.exists,
                             patchedText |-> patchedText.text]]
               /\ hist' = [hist EXCEPT ![p].edits = @ + 1,
                                        ![p].existed = Append(@, f.exists)]
               /\ UNCHANGED <<files, idx, ok, ko, messages, panel>>
    /\ UNCHANGED <<workspaceFolders, fs, clipboard, view, patchArea, lastEdit>>

\* The WorkspaceEdit of lines 227-234 applied by the host to the file as
\* it is now: createFile(ignoreIfExists) + insert at (0, 0), or a replace
\* of the range [0, originalText.length).
EditResult(f, c) ==
    IF ~c.document
    THEN [exists |-> TRUE,
          text |-> c.patchedText \o (IF f.exists THEN f.text ELSE <<>>),
          saved |-> IF f.exists THEN f.saved ELSE <<>>]
    ELSE [f EXCEPT !.text = c.patchedText
                            \o SubSeq(f.text, Len(c.originalText) + 1, Len(f.text))]

\* Lines 236-238 and 254-261: applyEdit settles.
ApplyEdit(p, outcome) ==
    /\ pc[p] = "edit"
    /\ \/ /\ outcome = "applied"
          /\ fs' = [fs EXCEPT ![Target(p)] = EditResult(@, cur[p])]
          /\ lastEdit' = [by |-> p, entry |-> Entry(p), read |-> cur[p],
                          base |-> fs[Target(p)],
                          result |-> EditResult(fs[Target(p)], cur[p])]
          /\ pc' = [pc EXCEPT ![p] = "save"]
          /\ UNCHANGED <<files, idx, ok, ko, messages, cur, panel, hist>>
       \/ /\ outcome = "refused"
          /\ Enter(p, files[p], AfterEdit(files[p], idx[p]), ok[p], ko[p] + 1,
                   PushFail(messages[p], RelPath(Entry(p)), "could not apply edits."),
                   hist[p])
          /\ UNCHANGED <<fs, lastEdit>>
       \/ /\ outcome = "throws"
          /\ Enter(p, files[p], AfterCatch(files[p], idx[p]), ok[p], ko[p] + 1,
                   PushFail(messages[p], RelPath(Entry(p)), "error"),
                   hist[p])
          /\ UNCHANGED <<fs, lastEdit>>
    /\ UNCHANGED <<workspaceFolders, clipboard, view, patchArea>>

\* What `await docToSave.save()` leaves on disk: the document's text when
\* the save succeeded, the old content when save() resolved to false.
SaveResult(f, saved) == IF saved THEN [f EXCEPT !.saved = f.text] ELSE f

\* Lines 238-253 and 258-261: the document is (re)opened and saved.
SaveDocument(p, outcome) ==
    /\ pc[p] = "save"
    /\ \/ /\ outcome \in {"saved", "unsaved"}
          /\ fs' = [fs EXCEPT ![Target(p)] = SaveResult(@, outcome = "saved")]
          /\ Enter(p, files[p], AfterEdit(files[p], idx[p]), ok[p] + 1, ko[p],
                   PushSaved(messages[p], RelPath(Entry(p)), cur[p].existed),
                   [hist[p] EXCEPT !.saves = @ + (IF outcome = "saved" THEN 1 ELSE 0)])
       \/ /\ outcome = "throws"
          /\ Enter(p, files[p], AfterCatch(files[p], idx[p]), ok[p], ko[p] + 1,
                   PushFail(messages[p], RelPath(Entry(p)), "error"),
                   hist[p])
          /\ UNCHANGED fs
    /\ UNCHANGED <<workspaceFolders, clipboard, view, patchArea, lastEdit>>

\* Lines 266-267: clipboard.writeText("") settles, then "clear" is posted
\* to the view if there is one.
ClearInputs(p) ==
    /\ pc[p] = "clip"
    /\ clipboard' = Blank
    /\ patchArea' = IF view THEN Blank ELSE patchArea
    /\ pc' = [pc EXCEPT ![p] = "done"]
    /\ hist' = [hist EXCEPT ![p].emptied = TRUE, ![p].clearSent = view]
    /\ UNCHANGED <<workspaceFolders, fs, view, files, idx, ok, ko, messages,
                   cur, panel, lastEdit>>

\* resolveWebviewView: the view (with an empty text area) comes up.
ResolveWebviewView ==
    /\ ~view
    /\ view' = TRUE
    /\ patchArea' = Blank
    /\ UNCHANGED <<workspaceFolders, fs, clipboard, pc, files, idx, ok, ko,
                   messages, cur, panel, hist, lastEdit>>

\* The "paste" message: the text area is filled from the clipboard.
PasteMessage ==
    /\ view
    /\ patchArea' = clipboard
    /\ UNCHANGED <<workspaceFolders, fs, clipboard, view, pc, files, idx, ok,
                   ko, messages, cur, panel, hist, lastEdit>>

\* The "apply" message: applyPatch(msg.text), msg.text the text area's value.
ApplyMessage ==
    /\ view
    /\ ApplyPatchStart("view", patchArea)

\* The gitPastePatch.apply command: applyPatch(clipboard text).
ApplyCommand == ApplyPatchStart("command", clipboard)

Next ==
    \/ ResolveWebviewView
    \/ PasteMessage
    \/ ApplyMessage
    \/ ApplyCommand
    \/ \E p \in Procs : OpenDocument(p)
    \/ \E p \in Procs, o \in {"applied", "refused", "throws"} : ApplyEdit(p, o)
    \/ \E p \in Procs, o \in {"saved", "unsaved", "throws"} : SaveDocument(p, o)
    \/ \E p \in Procs : ClearInputs(p)

Spec == Init /\ [][Next]_vars

SpecNames == InitNames /\ [][Next]_vars

\* =================================================================
\* Properties
\* =================================================================
Running(p) == pc[p] \in {"open", "edit", "save"}
Kinds == {"ok", "new", "fail"}

\* The positions, in order, of the entries of fl[1..n] that line 197 does
\* not skip.
RECURSIVE NonSkippedUpTo(_, _)
NonSkippedUpTo(fl, n) ==
    IF n = 0 THEN <<>>
    ELSE IF Skipped(fl[n]) THEN NonSkippedUpTo(fl, n - 1)
    ELSE Append(NonSkippedUpTo(fl, n - 1), n)

NonSkipped(fl) == NonSkippedUpTo(fl, Len(fl))

\* The text openTextDocument + getText give for file record f.
TextOf(f) == IF f.exists THEN f.text ELSE <<>>

\* C1: within one invocation the entries that are not skipped are attempted
\* (their document is opened) exactly once each and in patch order, whatever
\* happened to the entries before them: while the loop runs the attempts are
\* exactly the non-skipped entries up to the current one, and when the loop
\* is over they are all the non-skipped entries of the patch.
C1_EveryEntryAttemptedInOrder ==
    \A p \in Procs :
        hist[p].attempted =
            NonSkippedUpTo(files[p], IF Running(p) THEN idx[p] ELSE Len(files[p]))

\* C1 witness: a two-entry patch whose first entry failed and whose second
\* entry was attempted all the same; the loop is over.
C1_Witness ==
    \E p \in Procs :
        /\ pc[p] = "clip"
        /\ hist[p].attempted = <<1, 2>>
        /\ messages[p][1].kind = "fail"
        /\ messages[p][1].what = "error"

\* C2: (claim as stated) an edit issued for a file that could not be opened
\* creates the file and leaves exactly the patched text in it, and a result
\* entry is "new" exactly for files that did not exist when read.
C2_CreatedWithPatchedText ==
    /\ (lastEdit.by # "none" /\ ~lastEdit.read.document) =>
           /\ ~lastEdit.base.exists
           /\ lastEdit.result.text = lastEdit.read.patchedText
    /\ \A p \in Procs : \A k \in 1..Len(messages[p]) :
           /\ messages[p][k].kind = "new" => ~hist[p].existed[k]
           /\ messages[p][k].kind = "ok" => hist[p].existed[k]

\* C3: (claim as stated) an entry named "a/" + q or "b/" + q targets the
\* file q of the first workspace folder.
C3_OnePrefixRemoved ==
    \A p \in Procs :
        Running(p) =>
            LET raw == RawPath(Entry(p)) IN
            (StartsWith(raw, <<"a", "/">>) \/ StartsWith(raw, <<"b", "/">>)) =>
                Target(p) = JoinPath(workspaceFolders[1], Substring(raw, 2))

\* uri lies inside folder
Inside(folder, uri) ==
    /\ Len(uri) > Len(folder)
    /\ SubSeq(uri, 1, Len(folder)) = folder

\* C4: (claim as stated) every file applyPatch opens or edits lies inside
\* the first workspace folder.
C4_InsideFirstFolder ==
    /\ \A p \in Procs : Running(p) => Inside(workspaceFolders[1], Target(p))
    /\ \A u \in Paths : fs[u] # File(TextX) /\ fs[u] # NoFile => Inside(Folder1, u)

\* C5: (claim as stated) the list given to the result panel has exactly one
\* entry per file entry of the patch, in patch order.
C5_OneResultPerEntry ==
    \A p \in Procs :
        panel[p].shown =>
            /\ Len(panel[p].messages) = Len(files[p])
            /\ \A k \in 1..Len(panel[p].messages) :
                   /\ panel[p].messages[k].kind \in Kinds
                   /\ k <= Len(files[p])
                   /\ panel[p].messages[k].path = RelPath(files[p][k])

\* What the code does instead (holds under Spec): the list has exactly one
\* entry, of kind ok, new or fail, per file entry that is not skipped (an
\* entry is skipped when its name is empty or /dev/null), in patch order,
\* and ok and ko count its entries.
ResultsCoverNonSkippedEntries ==
    \A p \in Procs :
        panel[p].shown =>
            LET ns == NonSkipped(files[p])
                ms == panel[p].messages IN
            /\ Len(ms) = Len(ns)
            /\ \A k \in 1..Len(ms) :
                   /\ ms[k].kind \in Kinds
                   /\ ms[k].path = RelPath(files[p][ns[k]])
            /\ panel[p].ko = Cardinality({k \in 1..Len(ms) : ms[k].kind = "fail"})
            /\ panel[p].ok + panel[p].ko = Len(ms)

HasCrLf(t) == \E k \in 1..(Len(t) - 1) : t[k] = CR /\ t[k + 1] = LF

C7_EditTextIsLibraryResult ==
    lastEdit.by # "none" =>
        LET r == LibApplyPatch(Normalize(lastEdit.read.originalText), lastEdit.entry) IN
        /\ r.ok
        /\ lastEdit.read.patchedText = r.text
        /\ StartsWith(lastEdit.result.text, r.text)
        /\ (TextOf(lastEdit.base) = lastEdit.read.originalText
               => lastEdit.result.text = r.text)

HunksFailStep(p) ==
    /\ pc[p] = "open"
    /\ <<pc[p], idx[p], hist[p]>>' # <<pc[p], idx[p], hist[p]>>
    /\ ~LibApplyPatch(Normalize(TextOf(fs[Target(p)])), Entry(p)).ok

C7_FailedHunksWriteNothing ==
    \A p \in Procs :
        HunksFailStep(p) =>
            /\ fs' = fs
            /\ lastEdit' = lastEdit
            /\ pc'[p] # "edit"
            /\ hist'[p].edits = hist[p].edits
            /\ ko'[p] = ko[p] + 1
            /\ ok'[p] = ok[p]
            /\ messages'[p] = Append(messages[p],
                                     Message("fail", RelPath(Entry(p)), "patch failed."))

C7_OnlyLibraryTextWritten ==
    /\ []C7_EditTextIsLibraryResult
    /\ [][C7_FailedHunksWriteNothing]_vars

\* C7 witness: one invocation had an entry whose hunks failed (no edit) and
\* an entry whose edit the host applied.
C7_Witness ==
    \E p \in Procs :
        /\ lastEdit.by = p
        /\ Len(messages[p]) >= 1
        /\ messages[p][1].what = "patch failed."
        /\ hist[p].edits = 1
        /\ pc[p] = "save"

\* C8: (claim as stated) an entry is counted in ok (and reported ok or new)
\* only if its patched content was saved.
C8_OkOnlyIfSaved ==
    \A p \in Procs :
        /\ ok[p] <= hist[p].saves
        /\ Cardinality({k \in 1..Len(messages[p]) :
                           messages[p][k].kind \in {"ok", "new"}}) <= hist[p].saves

\* C9: (claim as stated) every edit is applied to the file as this
\* invocation read it: nobody wrote the file between the read and the write.
C9_NoStaleWrite ==
    lastEdit.by # "none" =>
        /\ lastEdit.base.exists = lastEdit.read.document
        /\ TextOf(lastEdit.base) = lastEdit.read.originalText

\* The text applyPatch of p is started with.
InputOf(p) == IF p = "view" THEN patchArea ELSE clipboard

EarlyCase(p) ==
    \/ InputOf(p).kind \in {"blank", "bad"}
    \/ InputOf(p).files = <<>>
    \/ workspaceFolders = <<>>

Started(p) ==
    /\ pc[p] \in {"idle", "done"}
    /\ <<pc[p], hist[p], panel[p]>>' # <<pc[p], hist[p], panel[p]>>

\* C10: (claim as stated) when an invocation is over, the clipboard was
\* emptied and "clear" was sent to the view if and only if the result panel
\* was shown.
C10_ClearedIffPanelShown ==
    \A p \in Procs :
        pc[p] = "done" =>
            ((hist[p].emptied /\ hist[p].clearSent) <=> panel[p].shown)

\* C10 (amended), state part: the clipboard is emptied only after the loop
\* is over and the panel shown, and by the end of the invocation exactly
\* when the panel was shown; "clear" is sent only if the clipboard was
\* emptied; an invocation that stopped early issued no edit, showed no
\* panel, emptied no clipboard and sent no "clear".
C10_State ==
    \A p \in Procs :
        /\ hist[p].emptied =>
               /\ pc[p] = "done"
               /\ panel[p].shown
               /\ idx[p] = Len(files[p]) + 1
               /\ panel[p].messages = messages[p]
        /\ hist[p].clearSent => hist[p].emptied
        /\ pc[p] = "done" => (hist[p].emptied <=> panel[p].shown)
        /\ pc[p] = "done" => (hist[p].early <=> ~panel[p].shown)
        /\ panel[p].shown => pc[p] \in {"clip", "done"}
        /\ hist[p].early =>
               /\ hist[p].edits = 0
               /\ ~hist[p].emptied
               /\ ~hist[p].clearSent

\* C10 (amended), step part: the step that ends a full invocation empties
\* the clipboard, and sends "clear" (emptying the text area) exactly when
\* the view exists; an invocation started on a blank patch, without a
\* workspace folder, on an unreadable patch or on a patch without files stops
\* at once and changes no file, clipboard or text area and shows no panel.
C10_Step ==
    \A p \in Procs :
        /\ (pc[p] = "clip" /\ pc'[p] = "done") =>
               /\ clipboard' = Blank
               /\ hist'[p].clearSent <=> view
               /\ view => patchArea' = Blank
               /\ fs' = fs
        /\ (Started(p) /\ EarlyCase(p)) =>
               /\ pc'[p] = "done"
               /\ hist'[p].early
               /\ ~panel'[p].shown
               /\ UNCHANGED <<fs, clipboard, patchArea, lastEdit>>
        /\ (Started(p) /\ ~EarlyCase(p)) =>
               /\ pc'[p] \in {"open", "clip"}
               /\ ~hist'[p].early

C10_ClearedAfterPanel ==
    /\ []C10_State
    /\ [][C10_Step]_vars

\* C10 witness: an invocation all of whose entries failed is over: panel
\* shown, clipboard emptied, and no "clear" sent because there is no view.
C10_Witness ==
    \E p \in Procs :
        /\ pc[p] = "done"
        /\ panel[p].shown
        /\ panel[p].ok = 0
        /\ panel[p].ko = 2
        /\ hist[p].emptied
        /\ ~hist[p].clearSent
        /\ clipboard = Blank

====
